---- MODULE Spec2Model ----
(***************************************************************************)
(* Model of the realtime-hub server: the websocket Connection (readPump,   *)
(* writePump, Close), the MessageHandler (registry, broadcast workers,     *)
(* removal loop, shutdown) and the Redis PubSub adapter (Subscribe,        *)
(* Publish, Unsubscribe, Close), for a deployment of hubs sharing one      *)
(* pub/sub channel.                                                        *)
(***************************************************************************)
EXTENDS Naturals, Integers, Sequences, FiniteSets, TLC

VARIABLES
    conn,          \* conn[c]: one Connection object and its three goroutines
    connections,   \* connections[h]: MessageHandler.connections (map id -> Connection, or nil)
    rlocked,       \* rlocked[h]: workers holding h.mu.RLock
    wlocked,       \* wlocked[h]: h.mu.Lock held by a call that never returns
    broadcastCh,   \* broadcastCh[h]: MessageHandler.broadcastCh
    remove,        \* remove[h]: MessageHandler.remove
    worker,        \* worker[h][w]: one broadcastWorker goroutine
    runLoop,       \* runLoop[h]: the removal loop of MessageHandler.Run
    sub,           \* sub[h]: the PubSub.Subscribe goroutine
    pubSub,        \* pubSub[h]: PubSub.pubSub, the redis subscription handle
    busCh,         \* busCh[h]: payloads redis has delivered to h's subscription
    srv,           \* srv[h]: position of Server.Run (serving / shutting down)
    panicked,      \* panicked[h]: the hub process died of an unrecovered panic
    env,           \* budgets of the environment (client sends, failures, ...)
    fanLog,        \* history: fanLog[c] = every fan-out visit of a worker to c
    pubLog,        \* history: every call of PubSub.Publish, <<hub, md, ok>>
    rmLog,         \* history: every closeAndRemoveConnection call, per hub
    subLog         \* history: every payload Subscribe received, per hub

vars == << conn, connections, rlocked, wlocked, broadcastCh, remove, worker,
           runLoop, sub, pubSub, busCh, srv, panicked, env, fanLog, pubLog, rmLog, subLog >>

-----------------------------------------------------------------------------
(* Bounds of the model. The channel capacities are 256 / 1024 in the source *)
(* and are scaled down here.                                                 *)

ReadChCap == 1
WriteChCap == 1
BroadcastChCap == 2
RemoveCap == 3
MaxSends == 2
MaxFails == 2
MaxPubFails == 1
MaxShutdowns == 1
MaxHangs == 1
MaxGarbage == 1
MaxCollisions == 1

\* --broadcast-workers, default 2
BroadcastWorkers == 2

Hubs == {"H1", "H2"}
Conns == {"A", "B", "C", "D"}
HubOf(c) == IF c = "D" THEN "H2" ELSE "H1"
Workers == 1..BroadcastWorkers

\* DefaultPubSubChannelName: one topic shared by every hub
PubSubChannelName == "hub-messages-pub-sub-channel"

NoMsg == [none |-> TRUE]
NoID == "-"

-----------------------------------------------------------------------------
(* message.MessageDetails *)

NewMessageDetailsHubAsSender(originID, hubID, senderID, message) ==
    [OriginID |-> originID, HubID |-> hubID, SenderID |-> hubID, Message |-> message]

NewMessageDetails(originID, hubID, senderID, message) ==
    [OriginID |-> originID, HubID |-> hubID, SenderID |-> senderID, Message |-> message]

SenderIsNotOrigin(md, pubSubChannel) == md.SenderID # md.OriginID

IsFromPubSub(md, pubSubChannel) == md.SenderID = pubSubChannel

BroadcastToEveryClient(md, clientID) == TRUE

ShouldBroadcastToClient(md, clientID) == md.OriginID # clientID

\* json.Marshal of the struct: the four tagged fields, []byte as base64 text
ToJSON(md) ==
    [origin_id |-> md.OriginID, hub_id |-> md.HubID, sender_id |-> md.SenderID,
     message |-> <<"base64", md.Message>>]

\* a payload that is not the JSON of a MessageDetails
Malformed == [malformed |-> TRUE]

\* json.Unmarshal: an error for a malformed payload, else the decoded struct
FromJSONFails(data) == "malformed" \in DOMAIN data

FromJSON(data) ==
    [OriginID |-> data.origin_id, HubID |-> data.hub_id, SenderID |-> data.sender_id,
     Message |-> data.message[2]]

-----------------------------------------------------------------------------
(* Helpers on the state *)

NewConn ==
    [id |-> NoID, ws |-> "none", wsCloses |-> 0, closeCalls |-> 0, closed |-> FALSE,
     readCh |-> <<>>, readChClosed |-> FALSE, readChCloses |-> 0,
     writeCh |-> <<>>, writeChClosed |-> FALSE, writeChCloses |-> 0,
     mu |-> "free", att |-> "none", rp |-> "none", rpMsg |-> 0, wp |-> "none",
     hi |-> "none", hiMd |-> NoMsg]

\* the process of hub h is running: no unrecovered panic, main has neither
\* returned nor ended the process with logger.Fatal
Alive(h) == ~panicked[h] /\ srv[h] \notin {"stopped", "exited"}

CanLockDespiteReaders(h) == ~wlocked[h]

\* h.mu can be taken for writing / for reading
CanLock(h) == rlocked[h] = {} /\ ~wlocked[h]
CanRLock(h) == ~wlocked[h]

\* h.connections[id]: lookup in the map (a nil map has no entries)
Registered(h) == IF connections[h].nil THEN {} ELSE connections[h].m
Exists(h, id) == \E p \in Registered(h) : p[1] = id
Lookup(h, id) == (CHOOSE p \in Registered(h) : p[1] = id)[2]
RegisteredIDs(h) == {p[1] : p \in Registered(h)}

\* uuid.New().String(): a fresh identifier for the upgraded connection, or,
\* when the generator collides, one the hub's registry already holds
NewUUID(c) == {c} \cup (IF env.collisions > 0 THEN RegisteredIDs(HubOf(c)) ELSE {})

(* A deployment the model starts from: the hubs that run, the clients     *)
(* already attached (their goroutines started, nothing sent yet), the     *)
(* clients that may still attach, and what the environment may do.        *)
NoSends == [c \in Conns |-> 0]

Scenario(hubs, attached, pool, sends, fails, pubFails, shutdowns, subscribed) ==
    [hubs |-> hubs, attached |-> attached, pool |-> pool, sends |-> sends,
     fails |-> fails, pubFails |-> pubFails, shutdowns |-> shutdowns,
     subscribed |-> subscribed, hangs |-> 0, garbage |-> 0,
     collisions |-> 0]

Scenarios ==
    { \* two hubs relaying over the bus, one client sending
      Scenario({"H1", "H2"}, {"A", "D"}, {}, [NoSends EXCEPT !["A"] = MaxSends],
               0, MaxPubFails, 0, TRUE),
      \* two hubs, clients of both sending
      Scenario({"H1", "H2"}, {"A", "B", "D"}, {}, [NoSends EXCEPT !["A"] = 1, !["D"] = 1],
               0, 0, 0, TRUE),
      \* one hub, three clients, fan-out under pressure
      Scenario({"H1"}, {"A", "B", "C"}, {}, [NoSends EXCEPT !["A"] = MaxSends],
               0, 0, 0, TRUE),
      \* one hub, two clients, Publish failing
      Scenario({"H1"}, {"A", "B"}, {}, [NoSends EXCEPT !["A"] = MaxSends],
               0, MaxPubFails, 0, TRUE),
      \* one hub, transport failures and removal
      Scenario({"H1"}, {"A", "B"}, {}, [NoSends EXCEPT !["A"] = 1],
               MaxFails, 0, 0, TRUE),
      \* one hub, a client attaching while another fails
      Scenario({"H1"}, {"B"}, {"A"}, [NoSends EXCEPT !["A"] = 1],
               1, 0, 0, TRUE),
      \* one hub starting up, a client attaching, shutdown
      Scenario({"H1"}, {"A"}, {"B"}, NoSends,
               0, 0, MaxShutdowns, FALSE),
      \* one hub starting up, a client sending and failing, shutdown
      Scenario({"H1"}, {"A"}, {}, [NoSends EXCEPT !["A"] = 1],
               1, 0, MaxShutdowns, FALSE),
      \* one hub, shutdown during which a c.ws.Close() may never return
      [Scenario({"H1"}, {"A", "B"}, {}, NoSends, 0, 0, MaxShutdowns, TRUE)
          EXCEPT !.hangs = MaxHangs],
      \* two hubs, a payload that is not a message published on the channel
      [Scenario({"H1", "H2"}, {"A", "D"}, {}, [NoSends EXCEPT !["A"] = 1], 0, 0, 0, TRUE)
          EXCEPT !.garbage = MaxGarbage],
      \* one hub, a client attaching with an id that uuid generated before
      [Scenario({"H1"}, {"B"}, {"A"}, NoSends, 1, 0, 0, TRUE)
          EXCEPT !.collisions = MaxCollisions],
      \* one hub, a client attaching while another client's message is fanned out
      Scenario({"H1"}, {"A", "B"}, {"C"}, [NoSends EXCEPT !["A"] = 1],
               0, 0, 0, TRUE) }

\* a connection that has been upgraded, added to the registry and is being served
AttachedConn(c) ==
    [NewConn EXCEPT !.id = c, !.ws = "open", !.att = "added",
                    !.rp = "read", !.wp = "run", !.hi = "recv"]

InitOf(s) ==
    /\ conn = [c \in Conns |-> IF c \in s.attached THEN AttachedConn(c) ELSE NewConn]
    /\ connections = [h \in Hubs |->
                        [nil |-> FALSE, m |-> {<<c, c>> : c \in {x \in s.attached : HubOf(x) = h}}]]
    /\ rlocked = [h \in Hubs |-> {}]
    /\ wlocked = [h \in Hubs |-> FALSE]
    /\ broadcastCh = [h \in Hubs |-> <<>>]
    /\ remove = [h \in Hubs |-> <<>>]
    /\ worker = [h \in Hubs |-> [w \in Workers |-> [pc |-> "idle", md |-> NoMsg, todo |-> {}]]]
    /\ runLoop = [h \in Hubs |-> [pc |-> "recv", connID |-> NoID]]
    /\ sub = [h \in Hubs |-> [pc |-> IF s.subscribed THEN "recv" ELSE "init", md |-> NoMsg]]
    /\ pubSub = [h \in Hubs |-> IF s.subscribed /\ h \in s.hubs THEN "subscribed" ELSE "nil"]
    /\ busCh = [h \in Hubs |-> <<>>]
    /\ srv = [h \in Hubs |-> IF h \in s.hubs THEN "serving" ELSE "stopped"]
    /\ panicked = [h \in Hubs |-> FALSE]
    /\ env = [sends |-> s.sends, sent |-> 0, origin |-> <<>>, fails |-> s.fails, pubFails |-> s.pubFails,
              shutdowns |-> s.shutdowns, pool |-> s.pool, hangs |-> s.hangs,
              garbage |-> s.garbage, collisions |-> s.collisions]
    /\ fanLog = [c \in Conns |-> <<>>]
    /\ pubLog = <<>>
    /\ rmLog = [h \in Hubs |-> <<>>]
    /\ subLog = [h \in Hubs |-> <<>>]

Init == \E s \in Scenarios : InitOf(s)

-----------------------------------------------------------------------------
(* Connection: Upgrade, readPump, writePump, Close *)

\* Upgrade: a new Connection with a fresh id; readPump and writePump are spawned
Upgrade(c) ==
    /\ Alive(HubOf(c)) /\ srv[HubOf(c)] = "serving"
    /\ c \in env.pool
    /\ \E u \in NewUUID(c) :
         /\ conn' = [conn EXCEPT ![c] = [NewConn EXCEPT !.id = u, !.ws = "open",
                        !.att = "upgraded", !.rp = "read", !.wp = "run"]]
         /\ env' = [env EXCEPT !.pool = @ \ {c},
                               !.collisions = IF u = c THEN @ ELSE @ - 1]
    /\ UNCHANGED << connections, rlocked, wlocked, broadcastCh, remove, worker, runLoop,
                    sub, pubSub, busCh, srv, panicked, fanLog, pubLog, rmLog, subLog >>

\* readPump: c.ws.ReadMessage() returns a message of the client (the payloads
\* are numbered in the order the clients send them; env.origin records who sent)
RPRead(c) ==
    /\ Alive(HubOf(c))
    /\ conn[c].rp = "read" /\ conn[c].ws = "open"
    /\ env.sends[c] > 0
    /\ conn' = [conn EXCEPT ![c].rp = "send", ![c].rpMsg = env.sent + 1]
    /\ env' = [env EXCEPT !.sends[c] = @ - 1, !.sent = @ + 1, !.origin = Append(@, c)]
    /\ UNCHANGED << connections, rlocked, wlocked, broadcastCh, remove, worker, runLoop,
                    sub, pubSub, busCh, srv, panicked, fanLog, pubLog, rmLog, subLog >>

\* readPump: ReadMessage (or SetReadDeadline) returns an error; the pump returns
RPFail(c) ==
    /\ Alive(HubOf(c))
    /\ conn[c].rp = "read"
    /\ \/ conn[c].ws = "closed" /\ UNCHANGED env
       \/ conn[c].ws = "open" /\ env.fails > 0 /\ env' = [env EXCEPT !.fails = @ - 1]
    /\ conn' = [conn EXCEPT ![c].rp = "signal"]
    /\ UNCHANGED << connections, rlocked, wlocked, broadcastCh, remove, worker, runLoop,
                    sub, pubSub, busCh, srv, panicked, fanLog, pubLog, rmLog, subLog >>

\* readPump: c.readCh <- message (panics on a closed channel, blocks on a full one)
RPSend(c) ==
    /\ Alive(HubOf(c))
    /\ conn[c].rp = "send"
    /\ IF conn[c].readChClosed
       THEN /\ panicked' = [panicked EXCEPT ![HubOf(c)] = TRUE]
            /\ UNCHANGED conn
       ELSE /\ Len(conn[c].readCh) < ReadChCap
            /\ conn' = [conn EXCEPT ![c].readCh = Append(@, conn[c].rpMsg),
                                    ![c].rp = "read", ![c].rpMsg = 0]
            /\ UNCHANGED panicked
    /\ UNCHANGED << connections, rlocked, wlocked, broadcastCh, remove, worker, runLoop,
                    sub, pubSub, busCh, srv, env, fanLog, pubLog, rmLog, subLog >>

\* readPump, deferred: h.remove <- c.id
RPSignal(c) ==
    /\ Alive(HubOf(c))
    /\ conn[c].rp = "signal"
    /\ Len(remove[HubOf(c)]) < RemoveCap
    /\ remove' = [remove EXCEPT ![HubOf(c)] = Append(@, conn[c].id)]
    /\ conn' = [conn EXCEPT ![c].rp = "done"]
    /\ UNCHANGED << connections, rlocked, wlocked, broadcastCh, worker, runLoop,
                    sub, pubSub, busCh, srv, panicked, env, fanLog, pubLog, rmLog, subLog >>

\* writePump: a message is received from c.writeCh and written to the websocket
WPWrite(c) ==
    /\ Alive(HubOf(c))
    /\ conn[c].wp = "run" /\ conn[c].writeCh # <<>>
    /\ \/ /\ conn[c].ws = "open"
          /\ conn' = [conn EXCEPT ![c].writeCh = Tail(@)]
          /\ UNCHANGED env
       \/ /\ conn[c].ws = "closed"
          /\ conn' = [conn EXCEPT ![c].writeCh = Tail(@), ![c].wp = "signal"]
          /\ UNCHANGED env
       \/ /\ conn[c].ws = "open" /\ env.fails > 0
          /\ conn' = [conn EXCEPT ![c].writeCh = Tail(@), ![c].wp = "signal"]
          /\ env' = [env EXCEPT !.fails = @ - 1]
    /\ UNCHANGED << connections, rlocked, wlocked, broadcastCh, remove, worker, runLoop,
                    sub, pubSub, busCh, srv, panicked, fanLog, pubLog, rmLog, subLog >>

\* writePump: the ticker fires and the ping cannot be written
WPPingFail(c) ==
    /\ Alive(HubOf(c))
    /\ conn[c].wp = "run"
    /\ \/ conn[c].ws = "closed" /\ UNCHANGED env
       \/ conn[c].ws = "open" /\ env.fails > 0 /\ env' = [env EXCEPT !.fails = @ - 1]
    /\ conn' = [conn EXCEPT ![c].wp = "signal"]
    /\ UNCHANGED << connections, rlocked, wlocked, broadcastCh, remove, worker, runLoop,
                    sub, pubSub, busCh, srv, panicked, fanLog, pubLog, rmLog, subLog >>

\* writePump: c.writeCh is closed and drained; the close frame is written, the pump returns
WPChClosed(c) ==
    /\ Alive(HubOf(c))
    /\ conn[c].wp = "run" /\ conn[c].writeCh = <<>> /\ conn[c].writeChClosed
    /\ conn' = [conn EXCEPT ![c].wp = "signal"]
    /\ UNCHANGED << connections, rlocked, wlocked, broadcastCh, remove, worker, runLoop,
                    sub, pubSub, busCh, srv, panicked, env, fanLog, pubLog, rmLog, subLog >>

\* writePump, deferred: h.remove <- c.id
WPSignal(c) ==
    /\ Alive(HubOf(c))
    /\ conn[c].wp = "signal"
    /\ Len(remove[HubOf(c)]) < RemoveCap
    /\ remove' = [remove EXCEPT ![HubOf(c)] = Append(@, conn[c].id)]
    /\ conn' = [conn EXCEPT ![c].wp = "done"]
    /\ UNCHANGED << connections, rlocked, wlocked, broadcastCh, worker, runLoop,
                    sub, pubSub, busCh, srv, panicked, env, fanLog, pubLog, rmLog, subLog >>

\* Connection.Close panics when it closes an already closed channel
ClosePanics(cr) == ~cr.closed /\ (cr.writeChClosed \/ cr.readChClosed)

\* Connection.Close, under c.mu; wsErr: c.ws.Close() returns an error
Close(cr, wsErr) ==
    IF cr.closed
    THEN [cr EXCEPT !.closeCalls = @ + 1]
    ELSE [cr EXCEPT !.closeCalls = @ + 1,
                    !.writeChClosed = TRUE, !.writeChCloses = @ + 1,
                    !.readChClosed = TRUE, !.readChCloses = @ + 1,
                    !.ws = "closed", !.wsCloses = @ + 1,
                    !.closed = ~wsErr]

-----------------------------------------------------------------------------
(* MessageHandler: attach, handleIncomingMessages *)

\* createAndAddConnection after Upgrade, under h.mu.Lock, then ServeHTTP's
\* go h.handleIncomingMessages(conn). Writing to the nil map panics in the
\* goroutine of the HTTP request: the deferred Unlock runs and net/http
\* recovers the panic, so the request is lost and the process goes on.
CreateAndAddConnection(c) ==
    LET h == HubOf(c) IN
    /\ Alive(h)
    /\ conn[c].att = "upgraded"
    /\ CanLock(h)
    /\ IF Exists(h, conn[c].id)
       THEN /\ conn' = [conn EXCEPT ![c].att = "rejected"]
            /\ UNCHANGED << connections, panicked >>
       ELSE IF connections[h].nil
       THEN /\ conn' = [conn EXCEPT ![c].att = "faulted"]
            /\ UNCHANGED << connections, panicked >>
       ELSE /\ connections' = [connections EXCEPT ![h].m = @ \cup {<<conn[c].id, c>>}]
            /\ conn' = [conn EXCEPT ![c].att = "added", ![c].hi = "recv"]
            /\ UNCHANGED panicked
    /\ UNCHANGED << rlocked, wlocked, broadcastCh, remove, worker, runLoop,
                    sub, pubSub, busCh, srv, env, fanLog, pubLog, rmLog, subLog >>

\* handleIncomingMessages: msg received from conn.readCh, NewMessageDetails built
HIRecv(c) ==
    /\ Alive(HubOf(c))
    /\ conn[c].hi = "recv" /\ conn[c].readCh # <<>>
    /\ conn' = [conn EXCEPT ![c].readCh = Tail(@), ![c].hi = "bsend",
                   ![c].hiMd = NewMessageDetails(conn[c].id, HubOf(c), conn[c].id,
                                                 Head(conn[c].readCh))]
    /\ UNCHANGED << connections, rlocked, wlocked, broadcastCh, remove, worker, runLoop,
                    sub, pubSub, busCh, srv, panicked, env, fanLog, pubLog, rmLog, subLog >>

\* handleIncomingMessages: h.broadcastCh <- md (blocks while the channel is full)
HISend(c) ==
    /\ Alive(HubOf(c))
    /\ conn[c].hi = "bsend"
    /\ Len(broadcastCh[HubOf(c)]) < BroadcastChCap
    /\ broadcastCh' = [broadcastCh EXCEPT ![HubOf(c)] = Append(@, conn[c].hiMd)]
    /\ conn' = [conn EXCEPT ![c].hi = "recv", ![c].hiMd = NoMsg]
    /\ UNCHANGED << connections, rlocked, wlocked, remove, worker, runLoop,
                    sub, pubSub, busCh, srv, panicked, env, fanLog, pubLog, rmLog, subLog >>

\* handleIncomingMessages: conn.readCh is closed and drained, the range loop ends
HIRangeEnd(c) ==
    /\ Alive(HubOf(c))
    /\ conn[c].hi = "recv" /\ conn[c].readCh = <<>> /\ conn[c].readChClosed
    /\ conn' = [conn EXCEPT ![c].hi = "signal"]
    /\ UNCHANGED << connections, rlocked, wlocked, broadcastCh, remove, worker, runLoop,
                    sub, pubSub, busCh, srv, panicked, env, fanLog, pubLog, rmLog, subLog >>

\* handleIncomingMessages, deferred: h.remove <- conn.id
HISignal(c) ==
    /\ Alive(HubOf(c))
    /\ conn[c].hi = "signal"
    /\ Len(remove[HubOf(c)]) < RemoveCap
    /\ remove' = [remove EXCEPT ![HubOf(c)] = Append(@, conn[c].id)]
    /\ conn' = [conn EXCEPT ![c].hi = "done"]
    /\ UNCHANGED << connections, rlocked, wlocked, broadcastCh, worker, runLoop,
                    sub, pubSub, busCh, srv, panicked, env, fanLog, pubLog, rmLog, subLog >>

-----------------------------------------------------------------------------
(* MessageHandler: broadcastWorker *)

ReceiveNewest(ch) == [md |-> ch[Len(ch)], rest |-> SubSeq(ch, 1, Len(ch) - 1)]

\* broadcastWorker: what "range h.broadcastCh" yields next, and what stays queued
Receive(ch) == [md |-> Head(ch), rest |-> Tail(ch)]

PublishFirst == "forward"

\* broadcastWorker: the statement that follows the receive, broadcastToConnections
AfterDequeue == "rlock"

\* broadcastWorker: md received from h.broadcastCh
WDequeue(h, w) ==
    /\ Alive(h)
    /\ worker[h][w].pc = "idle" /\ broadcastCh[h] # <<>>
    /\ worker' = [worker EXCEPT ![h][w] = [pc |-> AfterDequeue, md |-> Receive(broadcastCh[h]).md,
                                           todo |-> {}]]
    /\ broadcastCh' = [broadcastCh EXCEPT ![h] = Receive(@).rest]
    /\ UNCHANGED << conn, connections, rlocked, wlocked, remove, runLoop,
                    sub, pubSub, busCh, srv, panicked, env, fanLog, pubLog, rmLog, subLog >>

\* broadcastToConnections: h.mu.RLock(), the range over h.connections starts
\* (over an empty or nil map the range ends at once and the lock is released)
WRLock(h, w) ==
    /\ Alive(h)
    /\ worker[h][w].pc = "rlock"
    /\ CanRLock(h)
    /\ IF Registered(h) = {}
       THEN /\ worker' = [worker EXCEPT ![h][w].pc = "forward"]
            /\ UNCHANGED rlocked
       ELSE /\ rlocked' = [rlocked EXCEPT ![h] = @ \cup {w}]
            /\ worker' = [worker EXCEPT ![h][w].pc = "fanout", ![h][w].todo = Registered(h)]
    /\ UNCHANGED << conn, connections, wlocked, broadcastCh, remove, runLoop,
                    sub, pubSub, busCh, srv, panicked, env, fanLog, pubLog, rmLog, subLog >>

FanoutOutcomeNeverDrops(md, id, cr) ==
    IF ~ShouldBroadcastToClient(md, id) THEN "skip"
    ELSE IF cr.writeChClosed THEN "panic"
    ELSE "send"

\* what one iteration of the range does with entry <<id, c>>:
\* "skip" (the origin), "panic" (send on a closed channel), "send", or "drop" (full)
FanoutOutcome(md, id, cr) ==
    IF ~ShouldBroadcastToClient(md, id) THEN "skip"
    ELSE IF cr.writeChClosed THEN "panic"
    ELSE IF Len(cr.writeCh) < WriteChCap THEN "send"
    ELSE "drop"

RestStopsAfterSend(todo, p, outcome) == IF outcome = "send" THEN {} ELSE todo \ {p}

RestStopsAtFull(todo, p, outcome) == IF outcome = "drop" THEN {} ELSE todo \ {p}

\* the entries still to visit after one iteration on entry p
RestOfRange(todo, p, outcome) == todo \ {p}

\* broadcastToConnections: one iteration of the range (Go's map order is
\* unspecified); after the last one the deferred h.mu.RUnlock() runs
WFanoutStep(h, w) ==
    /\ Alive(h)
    /\ worker[h][w].pc = "fanout"
    /\ \E p \in worker[h][w].todo :
         LET md == worker[h][w].md
             c == p[2]
             outcome == FanoutOutcome(md, p[1], conn[c])
             rest == RestOfRange(worker[h][w].todo, p, outcome)
         IN
         IF outcome = "panic"
         THEN /\ panicked' = [panicked EXCEPT ![h] = TRUE]
              /\ UNCHANGED << worker, rlocked, conn, fanLog >>
         ELSE /\ worker' = [worker EXCEPT ![h][w].todo = rest,
                               ![h][w].pc = IF rest = {} THEN "forward" ELSE "fanout"]
              /\ rlocked' = [rlocked EXCEPT ![h] = IF rest = {} THEN @ \ {w} ELSE @]
              /\ conn' = IF outcome = "send"
                         THEN [conn EXCEPT ![c].writeCh = Append(@, md)]
                         ELSE conn
              /\ fanLog' = IF outcome \in {"send", "drop"}
                           THEN [fanLog EXCEPT ![c] =
                                   Append(@, [md |-> md, w |-> w,
                                              sent |-> (outcome = "send"),
                                              qlen |-> Len(conn[c].writeCh)])]
                           ELSE fanLog
              /\ UNCHANGED panicked
    /\ UNCHANGED << connections, wlocked, broadcastCh, remove, runLoop,
                    sub, pubSub, busCh, srv, env, pubLog, rmLog, subLog >>

ForwardAlways(md, pubSubChannel) == TRUE

\* forwardToRedisIfNeeded: the relay decision
ShouldForward(md, pubSubChannel) == ~IsFromPubSub(md, pubSubChannel)

DeliverTwice(data) ==
    [h \in Hubs |-> IF pubSub[h] = "subscribed" /\ Alive(h)
                    THEN busCh[h] \o <<data, data>> ELSE busCh[h]]

\* redis PUBLISH: the payload is delivered to every hub subscribed to the channel
Deliver(data) ==
    [h \in Hubs |-> IF pubSub[h] = "subscribed" /\ Alive(h)
                    THEN Append(busCh[h], data) ELSE busCh[h]]

\* another client of the redis server publishes a malformed payload on the channel
PublishMalformed ==
    /\ env.garbage > 0
    /\ env' = [env EXCEPT !.garbage = @ - 1]
    /\ busCh' = Deliver(Malformed)
    /\ UNCHANGED << conn, connections, rlocked, wlocked, broadcastCh, remove, worker, runLoop,
                    sub, pubSub, srv, panicked, fanLog, pubLog, rmLog, subLog >>

StopsOnPublishError(ok) ==
    [pc |-> IF ok THEN "idle" ELSE "stopped", md |-> NoMsg, todo |-> {}]

\* broadcastWorker after forwardToRedisIfNeeded: the error of Publish is only
\* logged, the worker takes the next message of the range
AfterPublish(ok) == [pc |-> "idle", md |-> NoMsg, todo |-> {}]

\* forwardToRedisIfNeeded, PubSub.Publish; then the worker loops
WForward(h, w) ==
    /\ Alive(h)
    /\ worker[h][w].pc = "forward"
    /\ LET md == worker[h][w].md IN
       IF ShouldForward(md, PubSubChannelName)
       THEN \/ /\ busCh' = Deliver(ToJSON(md))
               /\ pubLog' = Append(pubLog, [hub |-> h, w |-> w, md |-> md, ok |-> TRUE])
               /\ worker' = [worker EXCEPT ![h][w] = AfterPublish(TRUE)]
               /\ UNCHANGED env
            \/ /\ env.pubFails > 0
               /\ env' = [env EXCEPT !.pubFails = @ - 1]
               /\ pubLog' = Append(pubLog, [hub |-> h, w |-> w, md |-> md, ok |-> FALSE])
               /\ worker' = [worker EXCEPT ![h][w] = AfterPublish(FALSE)]
               /\ UNCHANGED busCh
       ELSE /\ worker' = [worker EXCEPT ![h][w] = AfterPublish(TRUE)]
            /\ UNCHANGED << busCh, pubLog, env >>
    /\ UNCHANGED << conn, connections, rlocked, wlocked, broadcastCh, remove, runLoop,
                    sub, pubSub, srv, panicked, fanLog, rmLog, subLog >>

-----------------------------------------------------------------------------
(* MessageHandler.Run: the removal loop *)

\* Run: connID received from h.remove
RunRecv(h) ==
    /\ Alive(h)
    /\ runLoop[h].pc = "recv" /\ remove[h] # <<>>
    /\ runLoop' = [runLoop EXCEPT ![h] = [pc |-> "remove", connID |-> Head(remove[h])]]
    /\ remove' = [remove EXCEPT ![h] = Tail(@)]
    /\ UNCHANGED << conn, connections, rlocked, wlocked, broadcastCh, worker,
                    sub, pubSub, busCh, srv, panicked, env, fanLog, pubLog, rmLog, subLog >>

DeleteNothing(m, connID) == m

\* the map after delete(h.connections, connID)
Delete(m, connID) == {p \in m : p[1] # connID}

\* closeAndRemoveConnection(connID), under h.mu.Lock
CloseAndRemoveConnection(h) ==
    LET connID == runLoop[h].connID IN
    /\ Alive(h)
    /\ runLoop[h].pc = "remove"
    /\ CanLock(h)
    /\ IF Exists(h, connID)
       THEN LET c == Lookup(h, connID) IN
            /\ connections' = [connections EXCEPT ![h].m = Delete(@, connID)]
            /\ IF ClosePanics(conn[c])
               THEN /\ panicked' = [panicked EXCEPT ![h] = TRUE]
                    /\ UNCHANGED conn
               ELSE /\ \E wsErr \in BOOLEAN : conn' = [conn EXCEPT ![c] = Close(@, wsErr)]
                    /\ UNCHANGED panicked
            /\ rmLog' = [rmLog EXCEPT ![h] = Append(@, [connID |-> connID, found |-> TRUE])]
       ELSE /\ rmLog' = [rmLog EXCEPT ![h] = Append(@, [connID |-> connID, found |-> FALSE])]
            /\ UNCHANGED << conn, connections, panicked >>
    /\ runLoop' = [runLoop EXCEPT ![h] = [pc |-> "recv", connID |-> NoID]]
    /\ UNCHANGED << rlocked, wlocked, broadcastCh, remove, worker,
                    sub, pubSub, busCh, srv, env, fanLog, pubLog, subLog >>

-----------------------------------------------------------------------------
(* redis.PubSub: Subscribe *)

\* Subscribe: ps.pubSub = ps.client.Subscribe(ctx, ps.channel)
SubStart(h) ==
    /\ Alive(h)
    /\ sub[h].pc = "init"
    /\ pubSub' = [pubSub EXCEPT ![h] = "subscribed"]
    /\ sub' = [sub EXCEPT ![h].pc = "recv"]
    /\ UNCHANGED << conn, connections, rlocked, wlocked, broadcastCh, remove, worker,
                    runLoop, busCh, srv, panicked, env, fanLog, pubLog, rmLog, subLog >>

AcceptsOwn(md, hubID) == TRUE

KeepSender(md, channel) == md

\* Subscribe: md.SenderID = ps.channel
StampSender(md, channel) == [md EXCEPT !.SenderID = channel]

\* Subscribe: whether a decoded message is forwarded to the broadcast channel
Accepts(md, hubID) == md.HubID # hubID

StopAfterDecodeError(s) == [s EXCEPT !.pc = "done"]

\* Subscribe: after a decode error the loop continues with the next payload
AfterDecodeError(s) == s

\* Subscribe: one payload is received, decoded, and filtered by hub id
SubRecv(h) ==
    /\ Alive(h)
    /\ sub[h].pc = "recv" /\ busCh[h] # <<>>
    /\ busCh' = [busCh EXCEPT ![h] = Tail(@)]
    /\ LET data == Head(busCh[h])
           fwd == ~FromJSONFails(data) /\ Accepts(FromJSON(data), h)
       IN
       /\ subLog' = [subLog EXCEPT ![h] = Append(@, [data |-> data, fwd |-> fwd])]
       /\ IF FromJSONFails(data)
          THEN sub' = [sub EXCEPT ![h] = AfterDecodeError(@)]
          ELSE IF fwd
          THEN sub' = [sub EXCEPT ![h] = [pc |-> "send",
                           md |-> StampSender(FromJSON(data), PubSubChannelName)]]
          ELSE UNCHANGED sub
    /\ UNCHANGED << conn, connections, rlocked, wlocked, broadcastCh, remove, worker,
                    runLoop, pubSub, srv, panicked, env, fanLog, pubLog, rmLog >>

\* Subscribe: ps.broadcastCh <- md (blocks while the channel is full)
SubSend(h) ==
    /\ Alive(h)
    /\ sub[h].pc = "send"
    /\ Len(broadcastCh[h]) < BroadcastChCap
    /\ broadcastCh' = [broadcastCh EXCEPT ![h] = Append(@, sub[h].md)]
    /\ sub' = [sub EXCEPT ![h] = [pc |-> "recv", md |-> NoMsg]]
    /\ UNCHANGED << conn, connections, rlocked, wlocked, remove, worker,
                    runLoop, pubSub, busCh, srv, panicked, env, fanLog, pubLog, rmLog, subLog >>

-----------------------------------------------------------------------------
(* Server.Run: graceful shutdown, MessageHandler.Close *)

\* Server.Run: a termination signal arrives and httpServer.Shutdown is called
\* with the 10 s context. When it returns nil, messageHandler.Close() is next;
\* when the context expires first it returns an error and logger.Fatal ends
\* the process at once: nothing is closed, removed or unsubscribed.
SrvShutdown(h) ==
    /\ Alive(h)
    /\ srv[h] = "serving"
    /\ env.shutdowns > 0
    /\ env' = [env EXCEPT !.shutdowns = @ - 1]
    /\ \E forced \in BOOLEAN :
          srv' = [srv EXCEPT ![h] = IF forced THEN "exited" ELSE "closeall"]
    /\ UNCHANGED << conn, connections, rlocked, wlocked, broadcastCh, remove, worker,
                    runLoop, sub, pubSub, busCh, panicked, fanLog, pubLog, rmLog, subLog >>

AfterCloseAllKeeps(reg) == reg

\* closeAndRemoveAllConnections: h.connections = nil
AfterCloseAll(reg) == [nil |-> TRUE, m |-> {}]

\* closeAndRemoveAllConnections: Close on every entry (each c.ws.Close() may
\* return an error), then the map is set to nil
CloseAndRemoveAllConnections(h) ==
    /\ Alive(h)
    /\ srv[h] = "closeall"
    /\ CanLock(h)
    /\ IF \E p \in Registered(h) : ClosePanics(conn[p[2]])
       THEN /\ panicked' = [panicked EXCEPT ![h] = TRUE]
            /\ UNCHANGED << conn, connections, srv >>
       ELSE /\ \E errs \in SUBSET {p[2] : p \in Registered(h)} :
                 conn' = [c \in Conns |->
                            IF <<conn[c].id, c>> \in Registered(h)
                            THEN Close(conn[c], c \in errs) ELSE conn[c]]
            /\ connections' = [connections EXCEPT ![h] = AfterCloseAll(@)]
            /\ srv' = [srv EXCEPT ![h] = "unsubscribe"]
            /\ UNCHANGED panicked
    /\ UNCHANGED << rlocked, wlocked, broadcastCh, remove, worker,
                    runLoop, sub, pubSub, busCh, env, fanLog, pubLog, rmLog, subLog >>

\* Connection.Close in which c.ws.Close() never returns: both channels are
\* closed, c.mu stays locked
HungClose(cr) ==
    [cr EXCEPT !.closeCalls = @ + 1,
               !.writeChClosed = TRUE, !.writeChCloses = @ + 1,
               !.readChClosed = TRUE, !.readChCloses = @ + 1,
               !.ws = "closing", !.mu = "hung"]

\* closeAndRemoveAllConnections in which the Close of entry p never returns:
\* the entries the range visited before p are closed, the others are not,
\* h.mu stays locked and MessageHandler.Close does not go on
CloseAllHangs(h) ==
    /\ Alive(h)
    /\ srv[h] = "closeall"
    /\ CanLock(h)
    /\ env.hangs > 0
    /\ \E p \in Registered(h) :
         \E before \in SUBSET ({q[2] : q \in Registered(h)} \ {p[2]}) :
            \E errs \in SUBSET before :
               /\ \A c \in before \cup {p[2]} : ~conn[c].closed /\ ~ClosePanics(conn[c])
               /\ conn' = [c \in Conns |->
                             IF c \in before THEN Close(conn[c], c \in errs)
                             ELSE IF c = p[2] THEN HungClose(conn[c])
                             ELSE conn[c]]
    /\ wlocked' = [wlocked EXCEPT ![h] = TRUE]
    /\ srv' = [srv EXCEPT ![h] = "hung"]
    /\ env' = [env EXCEPT !.hangs = @ - 1]
    /\ UNCHANGED << connections, rlocked, broadcastCh, remove, worker,
                    runLoop, sub, pubSub, busCh, panicked, fanLog, pubLog, rmLog, subLog >>

\* PubSub.Unsubscribe: ps.pubSub.Unsubscribe dereferences the handle, which
\* is nil until Subscribe has assigned it
Unsubscribe(h) ==
    /\ Alive(h)
    /\ srv[h] = "unsubscribe"
    /\ IF pubSub[h] = "nil"
       THEN /\ panicked' = [panicked EXCEPT ![h] = TRUE]
            /\ srv' = [srv EXCEPT ![h] = "faulted"]
            /\ UNCHANGED pubSub
       ELSE /\ pubSub' = [pubSub EXCEPT ![h] = "unsubscribed"]
            /\ srv' = [srv EXCEPT ![h] = "psclose"]
            /\ UNCHANGED panicked
    /\ UNCHANGED << conn, connections, rlocked, wlocked, broadcastCh, remove, worker,
                    runLoop, sub, busCh, env, fanLog, pubLog, rmLog, subLog >>

\* PubSub.Close, then Server.Run returns and the process exits
PubSubClose(h) ==
    /\ Alive(h)
    /\ srv[h] = "psclose"
    /\ pubSub' = [pubSub EXCEPT ![h] = "closed"]
    /\ srv' = [srv EXCEPT ![h] = "stopped"]
    /\ UNCHANGED << conn, connections, rlocked, wlocked, broadcastCh, remove, worker,
                    runLoop, sub, busCh, panicked, env, fanLog, pubLog, rmLog, subLog >>

-----------------------------------------------------------------------------

Next ==
    \/ \E c \in Conns : Upgrade(c)
    \/ \E c \in Conns : CreateAndAddConnection(c)
    \/ \E c \in Conns : RPRead(c)
    \/ \E c \in Conns : RPFail(c)
    \/ \E c \in Conns : RPSend(c)
    \/ \E c \in Conns : RPSignal(c)
    \/ \E c \in Conns : WPWrite(c)
    \/ \E c \in Conns : WPPingFail(c)
    \/ \E c \in Conns : WPChClosed(c)
    \/ \E c \in Conns : WPSignal(c)
    \/ \E c \in Conns : HIRecv(c)
    \/ \E c \in Conns : HISend(c)
    \/ \E c \in Conns : HIRangeEnd(c)
    \/ \E c \in Conns : HISignal(c)
    \/ \E h \in Hubs, w \in Workers : WDequeue(h, w)
    \/ \E h \in Hubs, w \in Workers : WRLock(h, w)
    \/ \E h \in Hubs, w \in Workers : WFanoutStep(h, w)
    \/ \E h \in Hubs, w \in Workers : WForward(h, w)
    \/ \E h \in Hubs : RunRecv(h)
    \/ \E h \in Hubs : CloseAndRemoveConnection(h)
    \/ \E h \in Hubs : SubStart(h)
    \/ \E h \in Hubs : SubRecv(h)
    \/ \E h \in Hubs : SubSend(h)
    \/ PublishMalformed
    \/ \E h \in Hubs : SrvShutdown(h)
    \/ \E h \in Hubs : CloseAndRemoveAllConnections(h)
    \/ \E h \in Hubs : CloseAllHangs(h)
    \/ \E h \in Hubs : Unsubscribe(h)
    \/ \E h \in Hubs : PubSubClose(h)

Spec == Init /\ [][Next]_vars

-----------------------------------------------------------------------------
(* Connection.Close called directly, twice per connection: once from the   *)
(* inbound and once from the outbound activity, racing for c.mu.           *)

InitClose ==
    InitOf(Scenario({"H1"}, {"A", "B", "C"}, {}, NoSends, 0, 0, 0, TRUE))

\* Close: c.mu.Lock() by activity t ("rp" or "wp")
CallClose(c, t) ==
    /\ Alive(HubOf(c))
    /\ conn[c][t] \in {"read", "run"}
    /\ conn[c].mu = "free"
    /\ conn' = [conn EXCEPT ![c].mu = t, ![c][t] = "closing"]
    /\ UNCHANGED << connections, rlocked, wlocked, broadcastCh, remove, worker, runLoop,
                    sub, pubSub, busCh, srv, panicked, env, fanLog, pubLog, rmLog, subLog >>

\* Close: the body and the deferred c.mu.Unlock()
CloseReturn(c, t) ==
    /\ Alive(HubOf(c))
    /\ conn[c].mu = t
    /\ IF ClosePanics(conn[c])
       THEN /\ panicked' = [panicked EXCEPT ![HubOf(c)] = TRUE]
            /\ UNCHANGED conn
       ELSE /\ \E wsErr \in BOOLEAN :
                 conn' = [conn EXCEPT ![c] = [Close(@, wsErr) EXCEPT !.mu = "free", ![t] = "done"]]
            /\ UNCHANGED panicked
    /\ UNCHANGED << connections, rlocked, wlocked, broadcastCh, remove, worker, runLoop,
                    sub, pubSub, busCh, srv, env, fanLog, pubLog, rmLog, subLog >>

NextClose ==
    \/ \E c \in Conns, t \in {"rp", "wp"} : CallClose(c, t)
    \/ \E c \in Conns, t \in {"rp", "wp"} : CloseReturn(c, t)

SpecClose == InitClose /\ [][NextClose]_vars

-----------------------------------------------------------------------------
(* forwardToRedisIfNeeded on any message: a worker of a subscribed hub that  *)
(* has finished the fan-out pass of a message with arbitrary fields.        *)

RelayInputs ==
    [OriginID : Conns, HubID : Hubs, SenderID : Conns \cup {PubSubChannelName},
     Message : 1..MaxSends]

InitRelay ==
    \E h \in Hubs, w \in Workers, md \in RelayInputs :
        /\ conn = [c \in Conns |-> NewConn]
        /\ connections = [x \in Hubs |-> [nil |-> FALSE, m |-> {}]]
        /\ rlocked = [x \in Hubs |-> {}]
        /\ wlocked = [x \in Hubs |-> FALSE]
        /\ broadcastCh = [x \in Hubs |-> <<>>]
        /\ remove = [x \in Hubs |-> <<>>]
        /\ worker = [x \in Hubs |-> [y \in Workers |->
                        IF x = h /\ y = w
                        THEN [pc |-> "forward", md |-> md, todo |-> {}]
                        ELSE [pc |-> "idle", md |-> NoMsg, todo |-> {}]]]
        /\ runLoop = [x \in Hubs |-> [pc |-> "recv", connID |-> NoID]]
        /\ sub = [x \in Hubs |-> [pc |-> "recv", md |-> NoMsg]]
        /\ pubSub = [x \in Hubs |-> "subscribed"]
        /\ busCh = [x \in Hubs |-> <<>>]
        /\ srv = [x \in Hubs |-> "serving"]
        /\ panicked = [x \in Hubs |-> FALSE]
        /\ env = [sends |-> NoSends, sent |-> 0, origin |-> <<>>, fails |-> 0,
                  pubFails |-> MaxPubFails, shutdowns |-> 0, pool |-> {}, hangs |-> 0,
                  garbage |-> 0, collisions |-> 0]
        /\ fanLog = [c \in Conns |-> <<>>]
        /\ pubLog = <<>>
        /\ rmLog = [x \in Hubs |-> <<>>]
        /\ subLog = [x \in Hubs |-> <<>>]

NextRelay == \E h \in Hubs, w \in Workers : WForward(h, w)

SpecRelay == InitRelay /\ [][NextRelay]_vars

-----------------------------------------------------------------------------
(* Properties *)

Range(q) == {q[i] : i \in DOMAIN q}

\* the messages of the entries of a fan-out log that were sent (not dropped)
Sent(log) == {e \in Range(log) : e.sent}

\* the messages hub h took from the bus into its broadcast channel
BusMessages(h) ==
    {[FromJSON(e.data) EXCEPT !.SenderID = PubSubChannelName] :
        e \in {x \in Range(subLog[h]) : x.fwd}}

\* every message hub h holds between the broadcast channel and the end of a worker's loop
InEngine(h) ==
    Range(broadcastCh[h])
      \cup {worker[h][w].md : w \in {x \in Workers : worker[h][x].pc # "idle"}}
      \cup (IF sub[h].pc = "send" THEN {sub[h].md} ELSE {})

\* C1. No self-delivery: no message is ever put on (or is in) the writeCh of
\* the connection whose id is the message's OriginID.
NoSelfDelivery ==
    \A c \in Conns :
        /\ \A e \in Range(fanLog[c]) : e.md.OriginID # conn[c].id
        /\ \A md \in Range(conn[c].writeCh) : md.OriginID # conn[c].id

\* C1 witness: a worker has gone through a whole registry that holds the
\* origin A, and B got the message while A did not.
NoSelfDeliveryWitness ==
    \E w \in Workers :
        /\ worker["H1"][w].pc = "forward"
        /\ worker["H1"][w].md.OriginID = "A"
        /\ <<"A", "A">> \in Registered("H1")
        /\ \E e \in Sent(fanLog["B"]) : e.md = worker["H1"][w].md
        /\ fanLog["A"] = <<>>

\* C2. No relay echo: Publish is never called with a message whose SenderID is
\* the pub/sub channel, nor with any message the subscription put on the
\* broadcast channel.
NoRelayEcho ==
    \A e \in Range(pubLog) :
        /\ ~IsFromPubSub(e.md, PubSubChannelName)
        /\ e.md \notin BusMessages(e.hub)

\* C2 witness: hub H2 has fanned a bus message out to D and its workers have
\* finished with it.
NoRelayEchoWitness ==
    /\ \E e \in Sent(fanLog["D"]) : IsFromPubSub(e.md, PubSubChannelName)
    /\ \A w \in Workers : worker["H2"][w].pc = "idle"
    /\ broadcastCh["H2"] = <<>> /\ sub["H2"].pc = "recv" /\ busCh["H2"] = <<>>
    /\ pubLog # <<>>

\* C3. Hub-id self-filter: a payload whose hub id is the receiving hub's own is
\* not forwarded by Subscribe, and no bus message of the hub's engine carries
\* the hub's own id.
HubIdSelfFilter ==
    \A h \in Hubs :
        /\ \A e \in Range(subLog[h]) :
              (~FromJSONFails(e.data) /\ FromJSON(e.data).HubID = h) => ~e.fwd
        /\ \A md \in InEngine(h) : IsFromPubSub(md, PubSubChannelName) => md.HubID # h

\* C3 witness: H1's subscription received H1's own publication and dropped it.
HubIdSelfFilterWitness ==
    \E e \in Range(subLog["H1"]) :
        /\ ~FromJSONFails(e.data)
        /\ FromJSON(e.data).HubID = "H1" /\ ~e.fwd
        /\ sub["H1"].pc = "recv"

\* worker w of hub h leaves broadcastToConnections in this step
PassEnds(h, w) ==
    /\ worker[h][w].pc \in {"rlock", "fanout"}
    /\ worker'[h][w].pc = "forward"

\* the positions of message md in a fan-out log
Visits(log, md) == {i \in DOMAIN log : log[i].md = md}

\* C4. Local fan-out completeness: when a worker ends the fan-out pass of a
\* message, every connection of the registry other than the origin has been
\* visited for that message exactly once over all workers, and the message was
\* sent on its writeCh unless the channel was full.
FanoutCompleteness ==
    [][\A h \in Hubs, w \in Workers :
         PassEnds(h, w) =>
           \A p \in Registered(h) :
              p[1] # worker[h][w].md.OriginID =>
                 LET log == fanLog'[p[2]]
                     at == Visits(log, worker[h][w].md)
                 IN /\ Cardinality(at) = 1
                    /\ \A i \in at : log[i].qlen < WriteChCap => log[i].sent]_vars

\* C4 witness: a message of A went to B and to C, once each, with A, B and C
\* registered.
FanoutCompletenessWitness ==
    \E w \in Workers :
        LET md == worker["H1"][w].md IN
        /\ worker["H1"][w].pc = "forward"
        /\ md.OriginID = "A" /\ md.SenderID = "A"
        /\ RegisteredIDs("H1") = {"A", "B", "C"}
        /\ \A c \in {"B", "C"} :
              /\ Cardinality(Visits(fanLog[c], md)) = 1
              /\ \E e \in Sent(fanLog[c]) : e.md = md

\* C5. Drop under pressure: one iteration sends exactly when the target's
\* writeCh has room; a drop leaves the full channel as it is and the pass goes
\* on, so at the end of the pass every other target has been visited and has
\* the message if it had room.
DropUnderPressure ==
    [][/\ \A c \in Conns :
            Len(fanLog'[c]) > Len(fanLog[c]) =>
               LET e == fanLog'[c][Len(fanLog'[c])] IN
               /\ e.sent <=> Len(conn[c].writeCh) < WriteChCap
               /\ e.sent => conn'[c].writeCh = Append(conn[c].writeCh, e.md)
               /\ ~e.sent => conn'[c].writeCh = conn[c].writeCh
               /\ \A h \in Hubs : ~panicked'[h]
       /\ \A h \in Hubs, w \in Workers :
            PassEnds(h, w) =>
              \A p \in Registered(h) :
                 p[1] # worker[h][w].md.OriginID =>
                    \E e \in Range(fanLog'[p[2]]) :
                       /\ e.md = worker[h][w].md
                       /\ e.qlen < WriteChCap => e.sent]_vars

\* C5 witness: in one pass the message was dropped for one target, whose
\* channel is still full, and sent to another.
DropUnderPressureWitness ==
    \E w \in Workers, c1, c2 \in Conns :
        LET md == worker["H1"][w].md IN
        /\ worker["H1"][w].pc = "forward"
        /\ c1 # c2
        /\ \E e \in Range(fanLog[c1]) : e.md = md /\ ~e.sent /\ e.qlen = WriteChCap
        /\ \E e \in Sent(fanLog[c2]) : e.md = md

\* C6 (as claimed). Idempotent close: however often Close is called, the
\* transport is released once, each channel is closed once, and nothing faults,
\* also after c.ws.Close() returned an error.
IdempotentClose ==
    \A c \in Conns :
        /\ ~panicked[HubOf(c)]
        /\ conn[c].closeCalls > 0 =>
              /\ conn[c].wsCloses = 1
              /\ conn[c].readChCloses = 1
              /\ conn[c].writeChCloses = 1

\* a removal was handled by hub h in this step; its record
Removal(h) == Len(rmLog'[h]) > Len(rmLog[h])
Removed(h) == rmLog'[h][Len(rmLog'[h])]

\* one step of exactly-once teardown: Close is called at most once on a
\* connection; a removal signal for a registered id deletes that entry only and
\* closes that connection only; a removal signal for an id that is not
\* registered changes neither the registry nor any connection; an id is found
\* at most once, so every later signal for it is a no-op.
ExactlyOnceTeardownStep ==
    /\ \A c \in Conns : conn'[c].closeCalls <= 1
    /\ \A h \in Hubs :
         /\ \A i, j \in DOMAIN rmLog'[h] :
               (i # j /\ rmLog'[h][i].found /\ rmLog'[h][j].found)
                  => rmLog'[h][i].connID # rmLog'[h][j].connID
         /\ Removal(h) =>
              IF Removed(h).found
              THEN \E c \in Conns :
                     /\ <<Removed(h).connID, c>> \in Registered(h)
                     /\ Registered(h)' = Registered(h) \ {<<Removed(h).connID, c>>}
                     /\ conn[c].closeCalls = 0 /\ conn'[c].closeCalls = 1
                     /\ conn'[c].readChClosed /\ conn'[c].writeChClosed
                     /\ \A c2 \in Conns \ {c} : conn'[c2] = conn[c2]
              ELSE /\ ~Exists(h, Removed(h).connID)
                   /\ connections' = connections
                   /\ conn' = conn

\* C7 (as claimed). Exactly-once teardown: a registered connection is removed
\* and closed exactly once by the first removal signal for its id, and every
\* later removal signal for that id is a no-op, whoever sends it.
ExactlyOnceTeardown == [][ExactlyOnceTeardownStep]_vars

\* every connection upgraded so far carries an id of its own
DistinctIds == \A c \in Conns : conn[c].id \in {NoID, c}

\* C7 while uuid.New() has returned no id twice: teardown is exactly-once.
ExactlyOnceTeardownDistinctIds == [][DistinctIds' => ExactlyOnceTeardownStep]_vars

\* C7 witness: the three signals of A were handled, the first removed and
\* closed A, the two later ones found nothing; B is still registered and open.
ExactlyOnceTeardownWitness ==
    /\ Len(rmLog["H1"]) = 3
    /\ \A i \in 1..3 : rmLog["H1"][i].connID = "A" /\ (rmLog["H1"][i].found <=> i = 1)
    /\ conn["A"].closeCalls = 1
    /\ RegisteredIDs("H1") = {"B"} /\ conn["B"].closeCalls = 0

\* the worker of the origin hub that published the message a bus message stems from
Publishers(md) ==
    {e.w : e \in {x \in Range(pubLog) : x.md.Message = md.Message /\ x.ok}}

\* C8 (as claimed). Per-origin FIFO: two messages of one origin are sent on a
\* writeCh in the order the origin sent them, with any number of workers.
PerOriginFIFO ==
    \A c \in Conns : \A i, j \in DOMAIN fanLog[c] :
        (/\ i < j
         /\ fanLog[c][i].sent /\ fanLog[c][j].sent
         /\ fanLog[c][i].md.OriginID = fanLog[c][j].md.OriginID)
        => fanLog[c][i].md.Message < fanLog[c][j].md.Message

\* C8 (amended). Two messages of one origin are sent on a writeCh in the order
\* the origin sent them when the same worker fanned both out on the receiving
\* hub and, for messages relayed over the bus, the same worker of the origin's
\* hub published both.
PerOriginFIFOSameWorker ==
    \A c \in Conns : \A i, j \in DOMAIN fanLog[c] :
        (/\ i < j
         /\ fanLog[c][i].sent /\ fanLog[c][j].sent
         /\ fanLog[c][i].md.OriginID = fanLog[c][j].md.OriginID
         /\ fanLog[c][i].w = fanLog[c][j].w
         /\ IsFromPubSub(fanLog[c][i].md, PubSubChannelName)
               => Publishers(fanLog[c][i].md) = Publishers(fanLog[c][j].md))
        => fanLog[c][i].md.Message < fanLog[c][j].md.Message

\* C8 witness: with two workers running, one of them sent two messages of A
\* to B, in A's order.
PerOriginFIFOWitness ==
    /\ Len(fanLog["B"]) = 2
    /\ \A i \in 1..2 : fanLog["B"][i].sent /\ fanLog["B"][i].md.OriginID = "A"
    /\ fanLog["B"][1].w = fanLog["B"][2].w
    /\ fanLog["B"][1].md.Message = 1 /\ fanLog["B"][2].md.Message = 2

\* C8, the relayed case is reached too: one worker of H2 sent to D two
\* messages of A that one worker of H1 published.
PerOriginFIFORelayedWitness ==
    /\ Len(fanLog["D"]) = 2
    /\ \A i \in 1..2 : fanLog["D"][i].sent /\ fanLog["D"][i].md.OriginID = "A"
    /\ fanLog["D"][1].w = fanLog["D"][2].w
    /\ Cardinality(Publishers(fanLog["D"][1].md) \cup Publishers(fanLog["D"][2].md)) = 1
    /\ fanLog["D"][1].md.Message = 1 /\ fanLog["D"][2].md.Message = 2

\* C9 (as claimed). Per-connection failure isolation: while the hub serves, no
\* goroutine of it faults, and a connection is closed only after a removal
\* signal carrying its own id was handled.
FailureIsolation ==
    \A h \in Hubs :
        srv[h] = "serving" =>
            /\ ~panicked[h]
            /\ \A c \in Conns :
                  (HubOf(c) = h /\ conn[c].closeCalls > 0) =>
                     \E e \in Range(rmLog[h]) : e.connID = conn[c].id /\ e.found

\* C10. Storm prevention: Publish is called only by the hub that took the
\* message from its own client, at most once per message, so there are never
\* more publications than client messages; a worker that ends its loop for a
\* client message has called Publish once, and not at all for a bus message.
StormPrevention ==
    [][/\ \A e \in Range(pubLog') :
            /\ e.hub = e.md.HubID
            /\ e.hub = HubOf(e.md.OriginID)
            /\ e.md.SenderID = e.md.OriginID
       /\ \A i, j \in DOMAIN pubLog' :
            i # j => pubLog'[i].md.Message # pubLog'[j].md.Message
       /\ Len(pubLog') <= env'.sent
       /\ \A h \in Hubs, w \in Workers :
            (worker[h][w].pc = "forward" /\ worker'[h][w].pc = "idle") =>
               IF worker[h][w].md.HubID = h
               THEN /\ Len(pubLog') = Len(pubLog) + 1
                    /\ pubLog'[Len(pubLog')].md = worker[h][w].md
                    /\ pubLog'[Len(pubLog')].hub = h
               ELSE pubLog' = pubLog]_vars

\* C10 witness: A (on H1) and D (on H2) each sent a message; each hub
\* published its own client's message and fanned the other's out; all is quiet.
StormPreventionWitness ==
    /\ Len(pubLog) = 2 /\ env.sent = 2
    /\ {e.hub : e \in Range(pubLog)} = {"H1", "H2"}
    /\ \E e \in Sent(fanLog["D"]) : e.md.OriginID = "A"
    /\ \E e \in Sent(fanLog["B"]) : e.md.OriginID = "D"
    /\ \A h \in Hubs :
          /\ \A w \in Workers : worker[h][w].pc = "idle"
          /\ broadcastCh[h] = <<>> /\ busCh[h] = <<>> /\ sub[h].pc = "recv"

-----------------------------------------------------------------------------
(* End-to-end delivery, registry, shutdown and error handling *)

\* nothing is in flight in hub h: workers idle, broadcast channel and bus drained
Quiet(h) ==
    /\ \A w \in Workers : worker[h][w].pc = "idle"
    /\ broadcastCh[h] = <<>> /\ busCh[h] = <<>> /\ sub[h].pc = "recv"

\* every hub has been serving and subscribed, and has removed no connection
AllServing ==
    \A h \in Hubs :
        /\ Alive(h) /\ srv[h] = "serving" /\ pubSub[h] = "subscribed"
        /\ rmLog[h] = <<>>

\* the positions in a fan-out log of the client message with payload m
Copies(log, m) == {i \in DOMAIN log : log[i].md.Message = m}

\* C11. End-to-end cross-hub delivery: a client message is never enqueued to
\* its origin, no connection is visited twice for it (so the clients of the
\* origin's hub get no second copy by way of the bus: a copy on the origin's
\* hub is the local one, a copy elsewhere the relayed one), and once a
\* published message has run through every serving hub, each registered
\* connection of every hub other than the origin has been visited for it
\* exactly once and has it enqueued unless its queue was full.
CrossHubDelivery ==
    /\ \A c \in Conns :
          /\ \A i, j \in DOMAIN fanLog[c] :
                i # j => fanLog[c][i].md.Message # fanLog[c][j].md.Message
          /\ \A e \in Range(fanLog[c]) :
                /\ e.md.OriginID # conn[c].id
                /\ IsFromPubSub(e.md, PubSubChannelName) <=> e.md.HubID # HubOf(c)
    /\ (AllServing /\ \A h \in Hubs : Quiet(h)) =>
          \A p \in {x \in Range(pubLog) : x.ok} :
             \A h \in Hubs : \A r \in Registered(h) :
                r[1] # p.md.OriginID =>
                   LET log == fanLog[r[2]]
                       at == Copies(log, p.md.Message)
                   IN /\ Cardinality(at) = 1
                      /\ \A i \in at : log[i].qlen < WriteChCap => log[i].sent

\* C11 witness: H1 serves A and B, H2 serves D; a message of A was enqueued
\* to B (the local copy) and to D (the relayed copy), once each, not to A, and
\* H1 received its own publication from the bus and gave it to nobody.
CrossHubDeliveryWitness ==
    /\ AllServing /\ \A h \in Hubs : Quiet(h)
    /\ RegisteredIDs("H1") = {"A", "B"} /\ RegisteredIDs("H2") = {"D"}
    /\ \E p \in Range(pubLog) :
          /\ p.ok /\ p.md.OriginID = "A"
          /\ \E e \in Sent(fanLog["B"]) : e.md = p.md
          /\ \E e \in Sent(fanLog["D"]) :
                e.md = StampSender(p.md, PubSubChannelName)
          /\ Cardinality(Copies(fanLog["B"], p.md.Message)) = 1
          /\ Cardinality(Copies(fanLog["D"], p.md.Message)) = 1
          /\ Copies(fanLog["A"], p.md.Message) = {}
          /\ \E s \in Range(subLog["H1"]) : s.data = ToJSON(p.md) /\ ~s.fwd

\* Connection.Close has been called on c, or something of c is closed
Released(c) ==
    \/ conn[c].closeCalls > 0 \/ conn[c].closed
    \/ conn[c].readChClosed \/ conn[c].writeChClosed \/ conn[c].ws = "closed"

\* C12. Registry invariant: outside the critical sections of the registry
\* lock every registered id maps to a connection on which Close was never
\* called, with both channels open and the transport not released; and a step
\* that releases a connection (single removal or close-all) leaves it
\* unregistered.
RegistryInvariant ==
    [][/\ \A h \in Hubs : ~wlocked'[h] =>
            \A p \in Registered(h)' :
               /\ conn'[p[2]].id = p[1]
               /\ ~Released(p[2])'
       /\ \A c \in Conns :
            (~wlocked'[HubOf(c)] /\ ~Released(c) /\ Released(c)')
               => ~Exists(HubOf(c), conn[c].id)']_vars

\* C12 witness: shutdown closed the registered connections A and B, after
\* which the registry is empty.
RegistryInvariantWitness ==
    /\ srv["H1"] = "unsubscribe"
    /\ Released("A") /\ Released("B")
    /\ conn["A"].closeCalls = 1 /\ conn["B"].closeCalls = 1
    /\ Registered("H1") = {}

\* C12, the single-removal path is reached too: A was removed and closed,
\* B stays registered and open.
RegistryInvariantRemovalWitness ==
    /\ Released("A") /\ ~Exists("H1", "A")
    /\ \E e \in Range(rmLog["H1"]) : e.connID = "A" /\ e.found
    /\ Exists("H1", "B") /\ ~Released("B")

\* C13. Fan-out passes are atomic with respect to the registry: while a worker
\* holds the read lock for a pass, no step changes the registry (no attach and
\* no detach takes effect); every connection a pass visits is registered at
\* that moment, so one detached before the pass is not visited; and at the
\* end of the pass every registered connection but the origin has been
\* visited for the message exactly once.
AtomicFanoutPass ==
    [][\A h \in Hubs :
         /\ rlocked[h] # {} => connections'[h] = connections[h]
         /\ \A w \in Workers :
              /\ worker'[h][w].pc = "fanout" =>
                    /\ w \in rlocked'[h]
                    /\ worker'[h][w].todo \subseteq Registered(h)'
              /\ PassEnds(h, w) =>
                    \A p \in Registered(h) :
                       p[1] # worker[h][w].md.OriginID =>
                          Cardinality(Visits(fanLog'[p[2]], worker[h][w].md)) = 1
         /\ \A c \in Conns :
              (HubOf(c) = h /\ fanLog'[c] # fanLog[c]) =>
                  /\ <<conn[c].id, c>> \in Registered(h)
                  /\ \E w \in rlocked[h] :
                        /\ fanLog'[c] = Append(fanLog[c], fanLog'[c][Len(fanLog'[c])])
                        /\ fanLog'[c][Len(fanLog'[c])].md = worker[h][w].md
                        /\ Visits(fanLog[c], worker[h][w].md) = {}]_vars

\* C13 witness: a pass over the registry {A, B} is half done, B still to be
\* visited, while C has been upgraded and its createAndAddConnection waits for
\* the lock: the attach has not taken effect.
AtomicFanoutPassWitness ==
    \E w \in Workers :
        /\ worker["H1"][w].pc = "fanout" /\ w \in rlocked["H1"]
        /\ worker["H1"][w].md.OriginID = "A"
        /\ worker["H1"][w].todo = {<<"B", "B">>}
        /\ conn["C"].att = "upgraded"
        /\ RegisteredIDs("H1") = {"A", "B"}

\* C13, a connection attached after the pass was not visited by it: A's
\* message reached B, the pass is over, C is registered and got nothing.
AtomicFanoutPassAttachedWitness ==
    /\ RegisteredIDs("H1") = {"A", "B", "C"} /\ conn["C"].att = "added"
    /\ \E e \in Range(fanLog["B"]) : e.md.OriginID = "A"
    /\ fanLog["C"] = <<>>
    /\ rlocked["H1"] = {}
    /\ \A w \in Workers : worker["H1"][w].pc = "idle"

\* C13, a connection attached before the pass started is visited by it: C
\* was added while A's message was still queued, and the pass reached C.
AtomicFanoutPassAttachedBeforeWitness ==
    /\ conn["C"].att = "added"
    /\ \E e \in Range(fanLog["C"]) : e.md.OriginID = "A"

\* C13, a pass over the registry {A, B} is half done while the removal loop
\* waits for the lock to detach B, which the pass has yet to visit.
AtomicFanoutPassRemovalWitness ==
    \E w \in Workers :
        /\ worker["H1"][w].pc = "fanout" /\ w \in rlocked["H1"]
        /\ RegisteredIDs("H1") = {"A", "B"}
        /\ worker["H1"][w].todo = {<<"B", "B">>}
        /\ runLoop["H1"].pc = "remove" /\ runLoop["H1"].connID = "B"

\* C13, a connection detached before the pass started was not visited: A's
\* message was fanned out after B had been removed.
AtomicFanoutPassDetachedWitness ==
    \E w \in Workers :
        /\ worker["H1"][w].pc = "forward" /\ worker["H1"][w].md.OriginID = "A"
        /\ \E e \in Range(rmLog["H1"]) : e.connID = "B" /\ e.found
        /\ fanLog["B"] = <<>>

\* Server.Run has gone past the signal on hub h: shutdown is running or has returned
ShutdownStarted(h) == srv[h] \in {"closeall", "unsubscribe", "psclose"} \/ pubSub[h] = "closed"

\* MessageHandler.Close has returned on hub h
ShutdownReturned(h) == srv[h] = "stopped" /\ pubSub[h] = "closed"

\* C14 (as claimed). Shutdown closes everything: once shutdown runs on a hub
\* whose bus subscription is established, nothing faults before it returns,
\* and when it has returned every connection that was registered is closed,
\* the registry is empty and the bus handle is unsubscribed and closed.
ShutdownClosesEverything ==
    \A h \in Hubs :
        /\ (ShutdownStarted(h) /\ pubSub[h] # "nil") => ~panicked[h]
        /\ ShutdownReturned(h) =>
              /\ Registered(h) = {}
              /\ \A c \in Conns :
                    (HubOf(c) = h /\ conn[c].att = "added") =>
                        /\ conn[c].closeCalls = 1
                        /\ conn[c].readChClosed /\ conn[c].writeChClosed
                        /\ conn[c].ws = "closed"

\* a step of the program itself: every step that is a choice of the
\* environment (a client sending or attaching, a transport or Publish error,
\* a signal, a foreign payload, a Close that hangs) draws on env
ProgramStep == Next /\ env' = env

\* the behaviours of Spec in which goroutines that can run do run: the
\* program does not stop while one of its steps can be taken (every step makes
\* progress that is never undone, so this is fairness to each goroutine, the
\* removal loop included); the environment is free to do nothing
FairSpec == Spec /\ WF_vars(ProgramStep)

\* C15 (as claimed). Shutdown is bounded: when the Close of one connection
\* never completes during shutdown, shutdown still comes to an end (it gives
\* up and reports a timeout) and every other registered connection is closed.
ShutdownBounded ==
    \A h \in Hubs :
        (srv[h] = "hung") ~>
            /\ srv[h] # "hung"
            /\ \A p \in Registered(h) : conn[p[2]].mu = "hung" \/ conn[p[2]].closeCalls = 1

\* hub h received a payload from the bus in this step; its record
Received(h) == Len(subLog'[h]) > Len(subLog[h])
LastReceived(h) == subLog'[h][Len(subLog'[h])]

\* C16. Bus decode failure is skipped, not fatal: a payload that fails to
\* deserialize puts nothing on the broadcast channel, faults nothing and
\* leaves the subscription loop receiving; every valid payload of another hub
\* received (also after a malformed one) is stamped and is what the
\* subscription then puts on the broadcast channel.
DecodeFailureSkipped ==
    [][\A h \in Hubs :
         /\ Received(h) =>
              LET e == LastReceived(h) IN
              IF FromJSONFails(e.data)
              THEN /\ ~e.fwd
                   /\ broadcastCh' = broadcastCh
                   /\ sub'[h] = sub[h] /\ sub'[h].pc = "recv"
                   /\ ~panicked'[h]
              ELSE IF FromJSON(e.data).HubID # h
              THEN /\ e.fwd
                   /\ sub'[h].pc = "send"
                   /\ sub'[h].md = StampSender(FromJSON(e.data), PubSubChannelName)
              ELSE ~e.fwd /\ sub'[h] = sub[h]
         /\ (sub[h].pc = "send" /\ sub'[h].pc # "send") =>
              /\ broadcastCh'[h] = Append(broadcastCh[h], sub[h].md)
              /\ sub'[h].pc = "recv"]_vars

\* C16 witness: H2 received a malformed payload, skipped it, then received
\* A's message published by H1 and fanned it out to D.
DecodeFailureSkippedWitness ==
    /\ Len(subLog["H2"]) = 2
    /\ FromJSONFails(subLog["H2"][1].data) /\ ~subLog["H2"][1].fwd
    /\ ~FromJSONFails(subLog["H2"][2].data) /\ subLog["H2"][2].fwd
    /\ \E e \in Sent(fanLog["D"]) :
          e.md = StampSender(FromJSON(subLog["H2"][2].data), PubSubChannelName)

\* worker w of hub h called Publish in this step and it returned an error
PublishFailed(h, w) ==
    /\ Len(pubLog') = Len(pubLog) + 1
    /\ pubLog'[Len(pubLog')].hub = h /\ pubLog'[Len(pubLog')].w = w
    /\ ~pubLog'[Len(pubLog')].ok

\* C17. Bus publish failure is isolated from local fan-out: when Publish
\* returns an error for the message of a worker, the worker's fan-out pass is
\* over and every registered connection but the origin has been visited for
\* the message once, with the message enqueued unless its queue was full; the
\* step changes neither the registry nor any connection, faults nothing, and
\* leaves the worker ready to take the next message of the broadcast channel.
PublishFailureIsolated ==
    [][\A h \in Hubs, w \in Workers :
         PublishFailed(h, w) =>
            LET md == worker[h][w].md IN
            /\ pubLog'[Len(pubLog')].md = md
            /\ worker[h][w].pc = "forward" /\ w \notin rlocked[h]
            /\ \A p \in Registered(h) :
                  p[1] # md.OriginID =>
                     LET log == fanLog[p[2]]
                         at == Visits(log, md)
                     IN /\ Cardinality(at) = 1
                        /\ \A i \in at : log[i].qlen < WriteChCap => log[i].sent
            /\ connections' = connections /\ conn' = conn /\ fanLog' = fanLog
            /\ broadcastCh' = broadcastCh
            /\ ~panicked'[h] /\ Alive(h)'
            /\ worker'[h][w].pc = "idle"]_vars

\* C17 witness: Publish failed for the first message of A, which B has; the
\* same worker then took A's second message and enqueued it to B too.
PublishFailureIsolatedWitness ==
    /\ Len(pubLog) >= 1 /\ ~pubLog[1].ok /\ pubLog[1].md.Message = 1
    /\ Len(fanLog["B"]) = 2
    /\ fanLog["B"][1].md = pubLog[1].md /\ fanLog["B"][1].sent
    /\ fanLog["B"][2].md.Message = 2 /\ fanLog["B"][2].sent
    /\ fanLog["B"][2].w = pubLog[1].w
    /\ Exists("H1", "A") /\ Exists("H1", "B")

\* md has the origin, hub and payload it was created with: the payload is one
\* a client sent, the origin is the connection that sent it, the hub is that
\* connection's hub
AsCreated(md) ==
    /\ md.Message \in 1..env.sent
    /\ md.OriginID = conn[env.origin[md.Message]].id
    /\ md.HubID = HubOf(env.origin[md.Message])

\* md as it is before / after it crossed the bus
Local(md) == AsCreated(md) /\ md.SenderID = md.OriginID
Relayed(md) == AsCreated(md) /\ md.SenderID = PubSubChannelName

\* what a message held by hub h must look like
WellStamped(md, h) == IF md.HubID = h THEN Local(md) ELSE Relayed(md)

\* the payloads on the bus or received from it that decode
Decoded(datas) == {FromJSON(d) : d \in {x \in datas : ~FromJSONFails(x)}}

\* C18. Message field discipline: a message built from a client's bytes has
\* OriginID = SenderID = the connection's id and HubID = the local hub; in
\* every place a message is held afterwards (broadcast channel, worker,
\* outbound queue, Publish, bus payload, subscription) its OriginID, HubID and
\* payload are the ones it was created with; its SenderID is the origin's id
\* up to and on the bus and the bus topic on every hub that received it from
\* the bus, and nothing else.
FieldDiscipline ==
    /\ \A c \in Conns :
          /\ conn[c].hi = "bsend" =>
                /\ Local(conn[c].hiMd)
                /\ conn[c].hiMd.OriginID = conn[c].id
                /\ conn[c].hiMd.HubID = HubOf(c)
          /\ \A md \in Range(conn[c].writeCh) : WellStamped(md, HubOf(c))
          /\ \A e \in Range(fanLog[c]) : WellStamped(e.md, HubOf(c))
    /\ \A h \in Hubs :
          /\ \A md \in InEngine(h) : WellStamped(md, h)
          /\ \A md \in Decoded(Range(busCh[h])) : Local(md) /\ md.HubID # NoID
          /\ \A md \in Decoded({e.data : e \in Range(subLog[h])}) : Local(md)
    /\ \A e \in Range(pubLog) : Local(e.md) /\ e.md.HubID = e.hub

\* C18 witness: a message of A is in B's log as created and in D's log with
\* only the SenderID rewritten to the bus topic.
FieldDisciplineWitness ==
    \E e1 \in Sent(fanLog["B"]), e2 \in Sent(fanLog["D"]) :
        /\ e1.md = NewMessageDetails("A", "H1", "A", e1.md.Message)
        /\ e2.md = [e1.md EXCEPT !.SenderID = PubSubChannelName]
        /\ e2.md.SenderID # e1.md.SenderID

\* C19 (as claimed). Unsubscribe and Close of the bus adapter are safe at
\* shutdown in every interleaving with the subscription goroutine: whether
\* Subscribe has not yet assigned its handle, is waiting for a payload or is
\* forwarding one, MessageHandler.Close does not fault in Unsubscribe or in
\* PubSub.Close.
BusShutdownSafe == \A h \in Hubs : srv[h] # "faulted"

\* a goroutine is waiting in a send on a full channel
BlockedOnFull ==
    \/ \E c \in Conns :
          /\ Alive(HubOf(c))
          /\ \/ conn[c].rp = "send" /\ ~conn[c].readChClosed
                   /\ Len(conn[c].readCh) >= ReadChCap
             \/ conn[c].hi = "bsend" /\ Len(broadcastCh[HubOf(c)]) >= BroadcastChCap
             \/ "signal" \in {conn[c].rp, conn[c].wp, conn[c].hi}
                   /\ Len(remove[HubOf(c)]) >= RemoveCap
    \/ \E h \in Hubs :
          Alive(h) /\ sub[h].pc = "send" /\ Len(broadcastCh[h]) >= BroadcastChCap

\* C20 (as claimed). Backpressure never blocks: no goroutine is ever left
\* waiting in a send on a full readCh, broadcastCh, writeCh or remove channel.
BackpressureNeverBlocks == ~BlockedOnFull

\* C20 (amended). Only the outbound queue drops: a fan-out iteration is never
\* left waiting, it sends when the writeCh has room and otherwise drops and
\* leaves the channel as it is; the senders on readCh, broadcastCh and remove
\* never drop: each of them leaves its send only by appending its item to a
\* channel that has room, and waits while the channel is full.
OnlyOutboundDrops ==
    [][/\ \A h \in Hubs, w \in Workers :
            (Alive(h) /\ worker[h][w].pc = "fanout") => ENABLED WFanoutStep(h, w)
       /\ \A c \in Conns :
            LET h == HubOf(c) IN
            /\ Len(fanLog'[c]) > Len(fanLog[c]) =>
                  LET e == fanLog'[c][Len(fanLog'[c])] IN
                  /\ e.sent <=> Len(conn[c].writeCh) < WriteChCap
                  /\ Len(conn'[c].writeCh) <= WriteChCap
                  /\ ~e.sent => conn'[c].writeCh = conn[c].writeCh
            /\ (conn[c].rp = "send" /\ conn'[c].rp # "send") =>
                  /\ Len(conn[c].readCh) < ReadChCap
                  /\ conn'[c].readCh = Append(conn[c].readCh, conn[c].rpMsg)
            /\ (conn[c].hi = "bsend" /\ conn'[c].hi # "bsend") =>
                  /\ Len(broadcastCh[h]) < BroadcastChCap
                  /\ broadcastCh'[h] = Append(broadcastCh[h], conn[c].hiMd)
            /\ \A t \in {"rp", "wp", "hi"} :
                  (conn[c][t] = "signal" /\ conn'[c][t] # "signal") =>
                     /\ Len(remove[h]) < RemoveCap
                     /\ remove'[h] = Append(remove[h], conn[c].id)
       /\ \A h \in Hubs :
            (sub[h].pc = "send" /\ sub'[h].pc # "send") =>
               /\ Len(broadcastCh[h]) < BroadcastChCap
               /\ broadcastCh'[h] = Append(broadcastCh[h], sub[h].md)]_vars

\* C20 witness: both messages of A went through the one-slot readCh and the
\* broadcast channel to a worker's pass over B; the first is in B's writeCh,
\* the second found it full and was dropped; no goroutine of the hub faulted.
OnlyOutboundDropsWitness ==
    /\ Len(fanLog["B"]) = 2 /\ env.sent = 2
    /\ fanLog["B"][1].sent /\ fanLog["B"][1].md.OriginID = "A"
    /\ ~fanLog["B"][2].sent /\ fanLog["B"][2].qlen = WriteChCap
    /\ fanLog["B"][2].md.OriginID = "A"
    /\ Len(conn["B"].writeCh) = WriteChCap
    /\ ~panicked["H1"]

\* C20, a sender waiting at a full channel is reached too: A's reader holds
\* its second message while the first is still in the readCh.
BlockedSenderWitness ==
    /\ conn["A"].rp = "send" /\ conn["A"].rpMsg = 2
    /\ Len(conn["A"].readCh) = ReadChCap /\ Head(conn["A"].readCh) = 1
    /\ ~ENABLED RPSend("A")

-----------------------------------------------------------------------------
(* Attach, teardown and worker order *)

\* connection o is registered under its id, is open, and none of its own
\* goroutines has stopped
Serving(o) ==
    /\ conn[o].att = "added"
    /\ conn[o].rp \in {"read", "send"} /\ conn[o].wp = "run"
    /\ conn[o].hi \in {"recv", "bsend"}

\* C21 (as claimed). Duplicate id on attach: an attach whose id is already
\* registered is rejected and changes nothing: the entry still maps to the
\* original connection, which stays registered and open as long as the hub
\* serves and its own goroutines run, whatever the rejected connection's
\* goroutines do later.
DuplicateAttachRejected ==
    \A c \in Conns :
        conn[c].att = "rejected" =>
            \A o \in Conns \ {c} :
                (/\ HubOf(o) = HubOf(c) /\ conn[o].id = conn[c].id
                 /\ Serving(o)
                 /\ srv[HubOf(o)] = "serving" /\ ~panicked[HubOf(o)])
                => /\ <<conn[o].id, o>> \in Registered(HubOf(o))
                   /\ ~Released(o)

\* worker w of hub h called Publish in this step
Published(h, w) ==
    /\ Len(pubLog') = Len(pubLog) + 1
    /\ pubLog'[Len(pubLog')].hub = h /\ pubLog'[Len(pubLog')].w = w

WorkerStepOrderLateAttachWitness ==
    /\ \E e \in Range(pubLog) : e.hub = "H1" /\ e.md.OriginID = "A"
    /\ Exists("H1", "C") /\ fanLog["C"] = <<>>
    /\ \E e \in Range(fanLog["B"]) : e.md.OriginID = "A"

RelayBySenderOnly ==
    [][\A h \in Hubs, w \in Workers :
         (worker[h][w].pc = "forward" /\ worker'[h][w].pc = "idle") =>
            LET md == worker[h][w].md IN
            IF md.SenderID # PubSubChannelName
            THEN /\ Published(h, w)
                 /\ pubLog'[Len(pubLog')].md = md
                 /\ pubLog'[Len(pubLog')].ok =>
                       \A x \in Hubs : busCh'[x] = Append(busCh[x], ToJSON(md))
                 /\ ~pubLog'[Len(pubLog')].ok => busCh' = busCh
            ELSE pubLog' = pubLog /\ busCh' = busCh]_vars

\* C23 witness: a worker of H1 published a message whose HubID is H2 and
\* whose SenderID is a connection id.
RelayBySenderOnlyWitness ==
    \E e \in Range(pubLog) :
        /\ e.ok /\ e.hub = "H1" /\ e.md.HubID = "H2"
        /\ e.md.SenderID \in Conns /\ e.md.SenderID # e.md.OriginID
        /\ Head(busCh["H2"]) = ToJSON(e.md)

\* C23, the other half is reached too: a worker ended its loop body for a
\* message of its own hub whose SenderID is the channel name, and published
\* nothing.
RelayBySenderOnlySkipWitness ==
    /\ pubLog = <<>> /\ \A h \in Hubs : \A w \in Workers : worker[h][w].pc = "idle"

\* a read or a write of connection c has failed: one of its pumps has stopped
Failed(c) == conn[c].rp \in {"signal", "done"} \/ conn[c].wp \in {"signal", "done"}

\* connection c is out of the registry and closed
Gone(c) == <<conn[c].id, c>> \notin Registered(HubOf(c)) /\ conn[c].closeCalls > 0

\* C24 (as claimed). Eventual removal on failure: a connection that is (or
\* comes to be) registered and one of whose pumps has stopped on a failed
\* read or write is eventually removed from the registry and closed, as long
\* as the hub process runs; also when the pump stopped before the connection
\* was added to the registry.
EventualRemoval ==
    \A c \in Conns :
        (Failed(c) /\ conn[c].att = "added" /\ ~wlocked[HubOf(c)])
            ~> (Gone(c) \/ ~Alive(HubOf(c)) \/ wlocked[HubOf(c)])

\* the three goroutines of connection c have returned
TasksDone(c) ==
    /\ conn[c].rp = "done" /\ conn[c].wp = "done"
    /\ conn[c].hi \in {"done", "none"}

\* Server.Run has returned or ended the process of hub h with logger.Fatal:
\* every goroutine of the process is gone with it
ProcessEnded(h) == srv[h] \in {"stopped", "exited"}

\* C25 (as claimed). Teardown reaches every task of the connection: after
\* Connection.Close has run on a connection, its readPump, its writePump and
\* its handleIncomingMessages all return, and none of them faults.
TeardownReachesTasks ==
    \A c \in Conns :
        (conn[c].closeCalls > 0 /\ conn[c].mu = "free")
            ~> (TasksDone(c) /\ ~panicked[HubOf(c)]) \/ ProcessEnded(HubOf(c))

\* C26 (as claimed). No attachment after shutdown: once close-all has run and
\* set the registry to nil, the registry has no entry ever again (so a removal
\* signal handled later finds nothing), and an attach that reaches
\* createAndAddConnection after that point is turned away without a fault.
NoAttachAfterShutdown ==
    \A h \in Hubs :
        connections[h].nil =>
            /\ Registered(h) = {}
            /\ \A c \in Conns : HubOf(c) = h => conn[c].att # "faulted"

\* C27 (as claimed). The inbound reader never sends on a closed inbound
\* queue: readPump is never at c.readCh <- message with a message in hand
\* while c.readCh is closed, and so never faults there.
ReaderNeverSendsOnClosed ==
    \A c \in Conns : ~(conn[c].rp = "send" /\ conn[c].readChClosed)

\* C28. Fan-out never enqueues onto a closed outbound queue: every connection
\* a pass has yet to visit has an open writeCh, on which Close has never run,
\* and every visit a worker makes is to such a connection; so no iteration of
\* a pass sends on a closed channel, with removals and shutdown interleaved.
FanoutNeverOnClosed ==
    [][/\ \A h \in Hubs, w \in Workers :
            worker'[h][w].pc = "fanout" =>
               \A p \in worker'[h][w].todo :
                  /\ ~conn'[p[2]].writeChClosed /\ conn'[p[2]].closeCalls = 0
                  /\ FanoutOutcome(worker'[h][w].md, p[1], conn'[p[2]]) # "panic"
       /\ \A c \in Conns :
            Len(fanLog'[c]) > Len(fanLog[c]) =>
               /\ ~conn[c].writeChClosed /\ ~conn'[c].writeChClosed
               /\ conn[c].closeCalls = 0]_vars

\* C28 witness: B was removed and its writeCh closed; a worker is then in a
\* pass for A's message over a registry that no longer holds B.
FanoutNeverOnClosedWitness ==
    \E w \in Workers :
        /\ worker["H1"][w].pc = "fanout" /\ worker["H1"][w].md.OriginID = "A"
        /\ conn["B"].writeChClosed /\ conn["B"].att = "added"
        /\ \A p \in worker["H1"][w].todo : p[2] # "B"
        /\ worker["H1"][w].todo # {}

\* C28, a removal waiting for the lock while a pass still has the open
\* connection to visit is reached too, with B's writeCh full.
FanoutNeverOnClosedRaceWitness ==
    \E w \in Workers :
        /\ worker["H1"][w].pc = "fanout" /\ <<"B", "B">> \in worker["H1"][w].todo
        /\ runLoop["H1"].pc = "remove" /\ runLoop["H1"].connID = "B"
        /\ ~conn["B"].writeChClosed

====
